---- MODULE Spec2Model ----
(***************************************************************************)
(* metazap (src/src/main.rs): walk a directory, re-encode every png/jpg    *)
(* file in parallel (rayon par_bridge over a lazy WalkDir iterator),       *)
(* optionally backing the original up first, and print a summary.          *)
(*                                                                         *)
(* A path is a record [dir, name]; name is the file name split at its      *)
(* dots (photo.bak.png = <<"photo","bak","png">>).  File content is a      *)
(* record [px, st]: px identifies the pixels (the path the bytes           *)
(* originally came from), st the state of the bytes: "orig" the original   *)
(* file, "bad" an original that does not decode, "enc" the output of       *)
(* img.save, "opt" the output of oxipng, "part" a truncated write, "new"   *)
(* a file just created and still empty (px is then the source of the       *)
(* pipeline that created it), "mix" the interleaved bytes of two writers.  *)
(*                                                                         *)
(* The worker threads are interchangeable, so the closure calls in flight  *)
(* are kept as a set (wk) and the workers that died in a panic as a count  *)
(* (dead); a worker that is in neither is waiting in the iterator's next().*)
(***************************************************************************)
EXTENDS Integers, Sequences, FiniteSets, TLC

\* ------------------------------------------------------------------ bounds
NumWorkers == 2     \* rayon worker threads pulling from the bridge
MaxLate == 1        \* files created during the run that the walk returns
MaxFaults == 1      \* injected I/O failures per run

None == "None"
NoExit == -1          \* exit_code while the process is running
NoSummary == <<>>     \* summary before it is printed
NoPath == [dir |-> "", name |-> <<>>]
NoContent == [px |-> NoPath, st |-> "none"]

\* ------------------------------------------------------------ input sets
InputDirs == {"in", "missing"}
OutputOpts == {None, "in", "in/sub", "new/out"}
ExistingDirs == {"in", "in/sub"}
NonUtf8 == {"\\xFF"}

P(d, n) == [dir |-> d, name |-> n]

A_PNG == P("in", <<"a", "png">>)
A_BAK_PNG == P("in", <<"a", "bak", "png">>)
SUB_A_PNG == P("in/sub", <<"a", "png">>)
B_TXT == P("in", <<"b", "txt">>)
C_JPG == P("in", <<"c", "JPG">>)
XFF_PNG == P("in", <<"\\xFF", "png">>)
K_JPG == P("in", <<"k", "jpg">>)
J_JPG == P("in", <<"j", "jpg">>)

InitPaths == {A_PNG, A_BAK_PNG, SUB_A_PNG, B_TXT, C_JPG, XFF_PNG, K_JPG, J_JPG}

\* the one file of the universe whose bytes are not a decodable image
CorruptFiles == {K_JPG}

\* the input trees: empty, one image, an image next to an earlier backup of
\* it, the same base name in two directories, an image among files that are
\* no candidates, a corrupt file among valid ones, a name that is not
\* UTF-8, a valid JPEG
Trees ==
    { {}, {A_PNG}, {A_PNG, A_BAK_PNG}, {A_PNG, SUB_A_PNG},
      {A_PNG, B_TXT, C_JPG}, {A_PNG, K_JPG}, {A_PNG, XFF_PNG}, {XFF_PNG},
      {J_JPG} }

InitialContent(p) ==
    [px |-> p, st |-> IF p \in CorruptFiles THEN "bad" ELSE "orig"]

\* ------------------------------------------------------- path operations
Parent(d) ==
    CASE d = "in/sub" -> "in"
      [] d = "new/out" -> "new"
      [] OTHER -> ""

BaseName(d) ==
    CASE d = "in/sub" -> "sub"
      [] d = "new/out" -> "out"
      [] OTHER -> d

\* the directory entry under which a directory shows up in its parent
DirEntry(d) == P(Parent(d), <<BaseName(d)>>)

\* Path::extension: the part after the last dot; none without a dot or
\* for a name that is only a leading dot followed by text (".png")
Extension(p) ==
    IF Len(p.name) < 2 \/ (Len(p.name) = 2 /\ p.name[1] = "")
    THEN None
    ELSE p.name[Len(p.name)]

\* OsStr::to_str: None unless the bytes are valid UTF-8
ToStr(s) == IF s \in NonUtf8 THEN None ELSE s

\* file_name().unwrap().to_str(): None when any part of the name is not UTF-8
FileNameToStr(p) ==
    IF \E i \in 1..Len(p.name) : ToStr(p.name[i]) = None THEN None ELSE p.name

\* PathBuf::join(file_name)
Join(d, n) == P(d, n)

\* PathBuf::set_extension(new_ext): keep the stem, replace what follows the
\* last dot; new_ext is itself dotted text ("bak.png" = <<"bak","png">>)
SetExtension(p, newExt) ==
    P(p.dir, SubSeq(p.name, 1, Len(p.name) - 1) \o newExt)

\* format!("bak.{}", ext_str)
BakExt(extStr) == <<"bak", extStr>>

ToLowercase(s) ==
    CASE s = "PNG" -> "png"
      [] s = "JPG" -> "jpg"
      [] OTHER -> s

extensions == {"png", "jpg", "jpeg"}

\* ------------------------------------------------------------- variables
VARIABLES
    args,        \* the parsed command line (Args)
    fs,          \* regular files: path -> content
    dirs,        \* existing directories
    pc,          \* main: "start", "run" (inside for_each), "exited"
    fatal,       \* None, "input_missing", "mkdir_failed" or "panic"
    exit_code,   \* the process exit status, NoExit while running
    summary,     \* the printed summary line, NoSummary until printed
    processed, skipped, errors,     \* the three AtomicUsize counters
    walker,      \* the lazy WalkDir iterator behind the bridge's mutex
    wk,          \* the closure calls in flight: position and locals of each
    dead,        \* workers whose job has unwound in a panic
    faults,      \* injected I/O failures so far
    fs0,         \* history: the tree before the run
    dispatched,  \* history: entries handed to the for_each closure
    outcome,     \* history: per dispatched entry, its counter increments
    backups,     \* history: completed fs::copy calls
    invoked,     \* history: sources process_image was called for
    triples,     \* history: (source, destination, backup) the closure derived
    faulted      \* history: (source, step) of every injected failure

vars == <<args, fs, dirs, pc, fatal, exit_code, summary, processed, skipped,
          errors, walker, wk, dead, faults, fs0, dispatched, outcome, backups,
          invoked, triples, faulted>>

ArgsSet ==
    [input : InputDirs, output : OutputOpts, recursive : BOOLEAN,
     dry_run : BOOLEAN, optimize : BOOLEAN, backup : BOOLEAN]

Init ==
    /\ args \in ArgsSet
    /\ \E T \in Trees : fs = [p \in T |-> InitialContent(p)]
    /\ dirs = ExistingDirs
    /\ pc = "start"
    /\ fatal = None
    /\ exit_code = NoExit
    /\ summary = NoSummary
    /\ processed = 0 /\ skipped = 0 /\ errors = 0
    /\ walker = [opened |-> FALSE, stack |-> <<>>, seen |-> {}, must |-> {},
                 late |-> 0, done |-> FALSE]
    /\ wk = {}
    /\ dead = 0
    /\ faults = 0
    /\ fs0 = fs
    /\ dispatched = {}
    /\ outcome = [p \in {} |-> <<>>]
    /\ backups = {}
    /\ invoked = {}
    /\ triples = {}
    /\ faulted = {}

\* ------------------------------------------------------ the code's tests
\* the existence test dropped
InputExists_Always(a, ds) == TRUE

\* line 42: args.input.exists()
InputExists(a, ds) == a.input \in ds

\* line 46: args.output.as_ref().unwrap_or(&args.input)
OutputDir(a) == IF a.output = None THEN a.input ELSE a.output

\* line 47: !output_dir.exists() && !args.dry_run
NeedsCreate(a, ds) == OutputDir(a) \notin ds /\ ~a.dry_run

\* create_dir_all makes the missing ancestors first, then the directory
Ancestors(d) == IF Parent(d) = "" THEN {d} ELSE {Parent(d), d}

\* the extension compared without regard to letter case
IsCandidate_AnyCase(p, isFile) ==
    isFile /\ \E ext \in extensions : ToLowercase(ToStr(Extension(p))) = ext

\* lines 60-65: the filter of the walk
IsCandidate(p, isFile) ==
    isFile /\ \E ext \in extensions : ToStr(Extension(p)) = ext

\* line 57: max_depth
MaxDepth(a) == IF a.recursive THEN 2 ELSE 1

\* every run taken to be in-place
is_inplace_Always(a) == TRUE

\* line 72
is_inplace(a) == a.output = None

\* lines 74-78
dest_path(src, fileName, a) ==
    IF a.output # None THEN Join(a.output, fileName) ELSE src

\* "bak" put after the extension instead of before it (photo.png.bak)
backup_path_Suffix(src, a) ==
    IF is_inplace(a) /\ a.backup /\ Extension(src) # None
    THEN P(src.dir, src.name \o <<"bak">>)
    ELSE NoPath

\* lines 80-86: the backup path, NoPath when no backup is planned
backup_path(src, a) ==
    IF is_inplace(a) /\ a.backup /\ Extension(src) # None
    THEN SetExtension(src, BakExt(ToStr(Extension(src))))
    ELSE NoPath

\* the copy made in a dry run too
CopiesBackup_Always(a) == TRUE

\* line 87: the copy is made only outside a dry run
CopiesBackup(a) == ~a.dry_run

\* line 102: the preview branch
IsPreview(a) == a.dry_run

\* the extension test dropped
WantsOptimize_Flag(optimize, ext) == optimize

\* line 138
WantsOptimize(optimize, ext) == optimize /\ ToLowercase(ext) = "png"

\* lines 127-131
ExitCodeFor(errs) == IF errs > 0 THEN 1 ELSE 0

\* ---------------------------------------------------- content operations
Decodable(c) == c.st \in {"orig", "enc", "opt"}
Encoded(img) == [px |-> img, st |-> "enc"]
Optimized(c) == [px |-> c.px, st |-> "opt"]
Truncated(c) == [px |-> c.px, st |-> "part"]

WriteFile(f, p, c) == [q \in DOMAIN f \cup {p} |-> IF q = p THEN c ELSE f[q]]

\* a failed write either never opened the file or left it truncated
FailedWrite(f, p, c) == {f, WriteFile(f, p, Truncated(c))}

\* File::create(dest): the file exists and is empty, truncated by the
\* pipeline of src, until that pipeline writes its bytes
Created(src) == [px |-> src, st |-> "new"]

\* the bytes of two writers interleaved in one file
Mixed == [px |-> NoPath, st |-> "mix"]

\* what a completed write leaves.  Each writer holds its own descriptor and
\* writes from offset 0: when somebody else has truncated or written the
\* file since this writer created it, the file ends as this writer's bytes
\* or as a mixture of the two
Written(f, src, p, c) ==
    IF f[p] = Created(src)
    THEN {WriteFile(f, p, c)}
    ELSE {WriteFile(f, p, c), WriteFile(f, p, Mixed)}


\* ------------------------------------------------------- main: the setup
workers == <<wk, dead>>
hist == <<fs0, dispatched, outcome, backups, invoked, triples, faulted>>
counters == <<processed, skipped, errors>>

\* lines 42-44: bail when the input does not exist
SetupInputMissing ==
    /\ pc = "start"
    /\ ~InputExists(args, dirs)
    /\ pc' = "exited" /\ fatal' = "input_missing" /\ exit_code' = 1
    /\ UNCHANGED <<args, fs, dirs, summary, counters, walker, workers, faults, hist>>

\* lines 46-49: create_dir_all succeeds
SetupCreate ==
    /\ pc = "start"
    /\ InputExists(args, dirs)
    /\ NeedsCreate(args, dirs)
    /\ dirs' = dirs \cup Ancestors(OutputDir(args))
    /\ pc' = "run"
    /\ UNCHANGED <<args, fs, fatal, exit_code, summary, counters, walker, workers,
                   faults, hist>>

\* lines 46-49: create_dir_all fails, possibly after making an ancestor
SetupCreateFails ==
    /\ pc = "start"
    /\ InputExists(args, dirs)
    /\ NeedsCreate(args, dirs)
    /\ \E made \in {{}, Ancestors(OutputDir(args)) \ {OutputDir(args)}} :
           dirs' = dirs \cup made
    /\ pc' = "exited" /\ fatal' = "mkdir_failed" /\ exit_code' = 1
    /\ UNCHANGED <<args, fs, summary, counters, walker, workers, faults, hist>>

\* lines 46-49: nothing to create
SetupReady ==
    /\ pc = "start"
    /\ InputExists(args, dirs)
    /\ ~NeedsCreate(args, dirs)
    /\ pc' = "run"
    /\ UNCHANGED <<args, fs, dirs, fatal, exit_code, summary, counters, walker,
                   workers, faults, hist>>

\* -------------------------------------------------- the walk (lines 56-65)
\* The iterator is advanced by whichever idle worker holds the bridge's
\* mutex.  A directory is read lazily: what it held when it was opened is
\* returned for certain, what is created in it while it is open may or may
\* not be returned.
Entries(d) ==
    {p \in DOMAIN fs : p.dir = d} \cup {DirEntry(s) : s \in {t \in dirs : Parent(t) = d}}

Top == walker.stack[Len(walker.stack)]

\* a worker that is neither inside the closure nor dead is inside next()
Idle == Cardinality(wk) + dead < NumWorkers

SomeonePulls == pc = "run" /\ ~walker.done /\ Idle

CanVisit(e) ==
    /\ walker.stack # <<>>
    /\ e \in Entries(Top)
    /\ e \notin walker.seen
    /\ (e \in walker.must \/ walker.late < MaxLate)

\* the entries of the directory on top that next() has not returned yet
Unread == IF walker.stack = <<>> THEN {} ELSE Entries(Top) \ walker.seen

\* 1 for an entry that was not there when its directory was opened
Late(e) == IF e \in walker.must THEN 0 ELSE 1

IsDirEntry(e) == \E s \in dirs : DirEntry(s) = e
DirOf(e) == CHOOSE s \in dirs : DirEntry(s) = e

\* what next() stops at: a candidate, or a directory to read; every other
\* entry is dropped by the filter inside the same call
Stops(e) ==
    \/ IsCandidate(e, e \in DOMAIN fs)
    \/ IsDirEntry(e) /\ Len(walker.stack) < MaxDepth(args)

WalkOpen ==
    /\ SomeonePulls
    /\ ~walker.opened
    /\ walker' = [walker EXCEPT !.opened = TRUE, !.stack = <<args.input>>,
                                !.must = Entries(args.input)]
    /\ UNCHANGED <<args, fs, dirs, pc, fatal, exit_code, summary, counters, workers,
                   faults, hist>>

\* a directory within max_depth: yielded (and dropped), then read
WalkDescend ==
  \E e \in Unread :
    /\ SomeonePulls
    /\ CanVisit(e)
    /\ IsDirEntry(e) /\ Len(walker.stack) < MaxDepth(args)
    /\ walker' = [walker EXCEPT !.seen = @ \cup {e},
                                !.late = @ + Late(e),
                                !.stack = Append(@, DirOf(e)),
                                !.must = @ \cup Entries(DirOf(e))]
    /\ UNCHANGED <<args, fs, dirs, pc, fatal, exit_code, summary, counters, workers,
                   faults, hist>>

\* line 59: a directory that cannot be read yields an Err item, which
\* filter_map(|e| e.ok()) drops; nothing below it is visited
WalkDenied ==
  \E e \in Unread :
    /\ SomeonePulls
    /\ CanVisit(e)
    /\ IsDirEntry(e) /\ Len(walker.stack) < MaxDepth(args)
    /\ faults < MaxFaults
    /\ faults' = faults + 1
    /\ faulted' = faulted \cup {[src |-> e, step |-> "readdir"]}
    /\ walker' = [walker EXCEPT !.seen = @ \cup {e}, !.late = @ + Late(e)]
    /\ UNCHANGED <<args, fs, dirs, pc, fatal, exit_code, summary, counters, workers,
                   fs0, dispatched, outcome, backups, invoked, triples>>

\* the directory on top is exhausted
WalkClose ==
    /\ SomeonePulls
    /\ walker.stack # <<>>
    /\ \A e \in Entries(Top) \cap walker.must : Stops(e) => e \in walker.seen
    /\ walker' = [walker EXCEPT !.stack = SubSeq(@, 1, Len(@) - 1),
                                !.done = (Len(walker.stack) = 1)]
    /\ UNCHANGED <<args, fs, dirs, pc, fatal, exit_code, summary, counters, workers,
                   faults, hist>>

\* ------------------------------------- the for_each closure (lines 67-118)
NextPc(b) ==
    IF b # NoPath /\ CopiesBackup(args) THEN "backup"
    ELSE IF IsPreview(args) THEN "preview" ELSE "decode"

\* lines 68-86: the walk yields a candidate to an idle worker, which derives the
\* destination and the backup path
Dispatch ==
  \E e \in Unread :
    /\ SomeonePulls
    /\ CanVisit(e)
    /\ IsCandidate(e, e \in DOMAIN fs)
    /\ FileNameToStr(e) # None
    /\ walker' = [walker EXCEPT !.seen = @ \cup {e}, !.late = @ + Late(e)]
    /\ dispatched' = dispatched \cup {e}
    /\ outcome' = [q \in DOMAIN outcome \cup {e} |->
                      IF q = e THEN <<>> ELSE outcome[q]]
    /\ LET d == dest_path(e, FileNameToStr(e), args)
           b == backup_path(e, args)
       IN /\ wk' = wk \cup {[pc |-> NextPc(b), src |-> e, dest |-> d,
                           bak |-> b, inplace |-> is_inplace(args),
                           ext |-> ToStr(Extension(e)),
                           img |-> NoPath, data |-> NoContent]}
          /\ triples' = triples \cup {[src |-> e, dest |-> d, bak |-> b]}
          /\ invoked' = IF NextPc(b) = "decode" THEN invoked \cup {e} ELSE invoked
    /\ UNCHANGED <<args, fs, dirs, pc, fatal, exit_code, summary, counters,
                   dead, faults, fs0, backups, faulted>>

\* line 69: file_name().unwrap().to_str().unwrap() panics on a name that is
\* not UTF-8; the worker's job unwinds, the others go on
DispatchPanic ==
  \E e \in Unread :
    /\ SomeonePulls
    /\ CanVisit(e)
    /\ IsCandidate(e, e \in DOMAIN fs)
    /\ FileNameToStr(e) = None
    /\ walker' = [walker EXCEPT !.seen = @ \cup {e}, !.late = @ + Late(e)]
    /\ dispatched' = dispatched \cup {e}
    /\ outcome' = [q \in DOMAIN outcome \cup {e} |->
                      IF q = e THEN <<>> ELSE outcome[q]]
    /\ dead' = dead + 1
    /\ UNCHANGED <<args, fs, dirs, pc, fatal, exit_code, summary, counters,
                   wk, faults, fs0, backups, invoked, triples, faulted>>

\* a failed file counted in skipped instead of errors
Tally_Skips(t, kind) ==
    /\ outcome' = [outcome EXCEPT ![t.src] = Append(@, kind)]
    /\ processed' = IF kind = "processed" THEN processed + 1 ELSE processed
    /\ errors' = errors
    /\ skipped' = IF kind = "errors" THEN skipped + 1 ELSE skipped
    /\ wk' = wk \ {t}
    /\ dead' = dead

\* one fetch_add on the matching counter ends the closure
Tally(t, kind) ==
    /\ outcome' = [outcome EXCEPT ![t.src] = Append(@, kind)]
    /\ processed' = IF kind = "processed" THEN processed + 1 ELSE processed
    /\ errors' = IF kind = "errors" THEN errors + 1 ELSE errors
    /\ skipped' = skipped
    /\ wk' = wk \ {t}
    /\ dead' = dead

Inject(t, step) ==
    /\ faults < MaxFaults
    /\ faults' = faults + 1
    /\ faulted' = faulted \cup {[src |-> t.src, step |-> step]}

\* lines 88-95: fs::copy(src_path, &backup_path) succeeds
BackupOk ==
  \E t \in wk :
    /\ pc = "run" /\ t.pc = "backup"
    /\ fs' = WriteFile(fs, t.bak, fs[t.src])
    /\ backups' = backups \cup
           {[src |-> t.src, bak |-> t.bak, bytes |-> fs[t.src]]}
    /\ LET n == IF IsPreview(args) THEN "preview" ELSE "decode"
       IN /\ wk' = (wk \ {t}) \cup {[t EXCEPT !.pc = n]} /\ dead' = dead
          /\ invoked' = IF n = "decode" THEN invoked \cup {t.src} ELSE invoked
    /\ UNCHANGED <<args, dirs, pc, fatal, exit_code, summary, counters, walker,
                   faults, fs0, dispatched, outcome, triples, faulted>>

\* lines 88-94: the copy fails; errors += 1 and return
BackupFails ==
  \E t \in wk :
    /\ pc = "run" /\ t.pc = "backup"
    /\ Inject(t, "backup")
    /\ fs' \in FailedWrite(fs, t.bak, fs[t.src])
    /\ Tally(t, "errors")
    /\ UNCHANGED <<args, dirs, pc, fatal, exit_code, summary, walker, fs0,
                   dispatched, backups, invoked, triples>>

\* lines 102-106: the dry-run preview
Preview ==
  \E t \in wk :
    /\ pc = "run" /\ t.pc = "preview"
    /\ Tally(t, "processed")
    /\ UNCHANGED <<args, fs, dirs, pc, fatal, exit_code, summary, walker,
                   faults, fs0, dispatched, backups, invoked, triples, faulted>>

\* ------------------------------------------ process_image (lines 134-146)
\* line 135: open and decode the source
DecodeOk ==
  \E t \in wk :
    /\ pc = "run" /\ t.pc = "decode"
    /\ Decodable(fs[t.src])
    /\ wk' = (wk \ {t}) \cup {[t EXCEPT !.pc = "save", !.img = fs[t.src].px]} /\ dead' = dead
    /\ UNCHANGED <<args, fs, dirs, pc, fatal, exit_code, summary, counters,
                   walker, faults, hist>>

\* line 135: the bytes are not a decodable image
DecodeCorrupt ==
  \E t \in wk :
    /\ pc = "run" /\ t.pc = "decode"
    /\ ~Decodable(fs[t.src])
    /\ Tally(t, "errors")
    /\ UNCHANGED <<args, fs, dirs, pc, fatal, exit_code, summary, walker,
                   faults, fs0, dispatched, backups, invoked, triples, faulted>>

\* line 135: the open or the read fails
DecodeFails ==
  \E t \in wk :
    /\ pc = "run" /\ t.pc = "decode"
    /\ Inject(t, "decode")
    /\ Tally(t, "errors")
    /\ UNCHANGED <<args, fs, dirs, pc, fatal, exit_code, summary, walker, fs0,
                   dispatched, backups, invoked, triples>>

\* line 136: img.save(dest) creates (truncates) the destination
SaveCreate ==
  \E t \in wk :
    /\ pc = "run" /\ t.pc = "save"
    /\ fs' = WriteFile(fs, t.dest, Created(t.src))
    /\ wk' = (wk \ {t}) \cup {[t EXCEPT !.pc = "encode"]} /\ dead' = dead
    /\ UNCHANGED <<args, dirs, pc, fatal, exit_code, summary, counters, walker,
                   faults, hist>>

\* line 136: img.save(dest) writes the encoding, then line 138
SaveOk ==
  \E t \in wk :
    /\ pc = "run" /\ t.pc = "encode"
    /\ fs' \in Written(fs, t.src, t.dest, Encoded(t.img))
    /\ IF WantsOptimize(args.optimize, t.ext)
       THEN /\ wk' = (wk \ {t}) \cup {[t EXCEPT !.pc = "read"]} /\ dead' = dead
            /\ UNCHANGED <<counters, outcome>>
       ELSE Tally(t, "processed")
    /\ UNCHANGED <<args, dirs, pc, fatal, exit_code, summary, walker, faults,
                   fs0, dispatched, backups, invoked, triples, faulted>>

\* line 136: the save fails
SaveFails ==
  \E t \in wk :
    /\ pc = "run" /\ t.pc = "save"
    /\ Inject(t, "encode")
    /\ fs' \in FailedWrite(fs, t.dest, Encoded(t.img))
    /\ Tally(t, "errors")
    /\ UNCHANGED <<args, dirs, pc, fatal, exit_code, summary, walker, fs0,
                   dispatched, backups, invoked, triples>>

\* line 139: fs::read(dest)
ReadBack ==
  \E t \in wk :
    /\ pc = "run" /\ t.pc = "read"
    /\ wk' = (wk \ {t}) \cup {[t EXCEPT !.pc = "optimize", !.data = fs[t.dest]]} /\ dead' = dead
    /\ UNCHANGED <<args, fs, dirs, pc, fatal, exit_code, summary, counters,
                   walker, faults, hist>>

\* line 139: the read fails
ReadFails ==
  \E t \in wk :
    /\ pc = "run" /\ t.pc = "read"
    /\ Inject(t, "optimize")
    /\ Tally(t, "errors")
    /\ UNCHANGED <<args, fs, dirs, pc, fatal, exit_code, summary, walker, fs0,
                   dispatched, backups, invoked, triples>>

\* lines 141-142: optimize_from_memory succeeds and fs::write(dest) creates
\* (truncates) the destination
OptCreate ==
  \E t \in wk :
    /\ pc = "run" /\ t.pc = "optimize"
    /\ Decodable(t.data)
    /\ fs' = WriteFile(fs, t.dest, Created(t.src))
    /\ wk' = (wk \ {t}) \cup {[t EXCEPT !.pc = "write"]} /\ dead' = dead
    /\ UNCHANGED <<args, dirs, pc, fatal, exit_code, summary, counters, walker,
                   faults, hist>>

\* line 142: fs::write(dest) writes the optimized bytes
OptWriteOk ==
  \E t \in wk :
    /\ pc = "run" /\ t.pc = "write"
    /\ fs' \in Written(fs, t.src, t.dest, Optimized(t.data))
    /\ Tally(t, "processed")
    /\ UNCHANGED <<args, dirs, pc, fatal, exit_code, summary, walker, faults,
                   fs0, dispatched, backups, invoked, triples, faulted>>

\* line 141: the bytes read back are not a PNG oxipng accepts
OptimizeFails ==
  \E t \in wk :
    /\ pc = "run" /\ t.pc = "optimize"
    /\ ~Decodable(t.data)
    /\ Tally(t, "errors")
    /\ UNCHANGED <<args, fs, dirs, pc, fatal, exit_code, summary, walker,
                   faults, fs0, dispatched, backups, invoked, triples, faulted>>

\* line 142: the write fails
WriteFails ==
  \E t \in wk :
    /\ pc = "run" /\ t.pc = "optimize"
    /\ Decodable(t.data)
    /\ Inject(t, "optimize")
    /\ fs' \in FailedWrite(fs, t.dest, Optimized(t.data))
    /\ Tally(t, "errors")
    /\ UNCHANGED <<args, dirs, pc, fatal, exit_code, summary, walker, fs0,
                   dispatched, backups, invoked, triples>>

\* ------------------------------------------ main after for_each (120-131)
\* for_each returning as soon as the walk is exhausted
Joined_WalkDone == walker.done \/ dead = NumWorkers

\* for_each returns when no call is in flight and the walk is exhausted or
\* no worker is left to advance it
Joined == wk = {} /\ (walker.done \/ dead = NumWorkers)

Panicked == dead > 0

\* lines 120-131: print the summary, exit 1 when errors > 0
Summary ==
    /\ pc = "run" /\ Joined /\ ~Panicked
    /\ summary' = <<processed, skipped, errors>>
    /\ exit_code' = ExitCodeFor(errors)
    /\ pc' = "exited"
    /\ UNCHANGED <<args, fs, dirs, fatal, counters, walker, workers, faults, hist>>

\* line 67: for_each resumes the panic of a worker in main
PanicExit ==
    /\ pc = "run" /\ Joined /\ Panicked
    /\ fatal' = "panic"
    /\ exit_code' = 101
    /\ pc' = "exited"
    /\ UNCHANGED <<args, fs, dirs, summary, counters, walker, workers, faults, hist>>

Next ==
    \/ SetupInputMissing
    \/ SetupCreate
    \/ SetupCreateFails
    \/ SetupReady
    \/ WalkOpen
    \/ WalkDescend
    \/ WalkDenied
    \/ WalkClose
    \/ Dispatch
    \/ DispatchPanic
    \/ BackupOk
    \/ BackupFails
    \/ Preview
    \/ DecodeOk
    \/ DecodeCorrupt
    \/ DecodeFails
    \/ SaveCreate
    \/ SaveOk
    \/ SaveFails
    \/ ReadBack
    \/ ReadFails
    \/ OptCreate
    \/ OptWriteOk
    \/ OptimizeFails
    \/ WriteFails
    \/ Summary
    \/ PanicExit

Spec == Init /\ [][Next]_vars

\* the worker threads and main are scheduled by the operating system: a
\* step that can be taken is eventually taken
FairSpec == Spec /\ WF_vars(Next)


\* ================================================================ claims
PastSetup == pc = "exited" /\ fatal \notin {"input_missing", "mkdir_failed"}
Increments(p) == Len(outcome[p])
BackupFailed(p) == [src |-> p, step |-> "backup"] \in faulted
OwnFault(p) == \E f \in faulted : f.src = p

\* the candidates of the tree as it was before the run
InitialCandidates ==
    {p \in DOMAIN fs0 :
        /\ IsCandidate(p, TRUE)
        /\ \/ p.dir = args.input
           \/ args.recursive /\ Parent(p.dir) = args.input}

\* C1: every dispatched candidate increments exactly one counter exactly
\* once; once the run is over none is left uncounted, and the printed
\* summary adds up to the number of candidates dispatched.
C1_ExactlyOneCounter ==
    /\ \A p \in dispatched : Increments(p) <= 1
    /\ PastSetup => \A p \in dispatched : Increments(p) = 1
    /\ summary # NoSummary =>
           summary[1] + summary[2] + summary[3] = Cardinality(dispatched)

\* C2: in-place, backup on, dry-run off: a file whose backup copy failed is
\* counted as errored, process_image is never called for it, and its
\* content is what it was before the run.
C2_FailedBackupLeavesSource ==
    (is_inplace(args) /\ args.backup /\ ~args.dry_run) =>
        \A p \in DOMAIN fs0 :
            BackupFailed(p) =>
                /\ outcome[p] = <<"errors">>
                /\ p \notin invoked
                /\ fs[p] = fs0[p]

\* C3: backup flag set, real run: a file of the tree differs from its
\* original bytes only if a completed backup copy of those bytes exists,
\* whatever the output directory is.
C3_NoOverwriteWithoutBackup ==
    (args.backup /\ ~args.dry_run) =>
        \A p \in DOMAIN fs0 :
            fs[p] # fs0[p] =>
                \E b \in backups : b.src = p /\ b.bytes = fs0[p]

\* C4: in-place real run with backup, finished: every originally present
\* candidate X.ext that was processed has X.bak.ext holding the original
\* bytes of X.ext, and X.ext holds the re-encoded pixels.
C4_BackupHoldsOriginal ==
    (summary # NoSummary /\ is_inplace(args) /\ args.backup /\ ~args.dry_run) =>
        \A p \in InitialCandidates \cap dispatched :
            outcome[p] = <<"processed">> =>
                /\ backup_path(p, args) \in DOMAIN fs
                /\ fs[backup_path(p, args)] = fs0[p]
                /\ fs[p].px = fs0[p].px
                /\ fs[p].st \in {"enc", "opt"}

\* C5: a dry run leaves the files and the directories as they were, for
\* every combination of the flags.
C5_DryRunLeavesFilesystem ==
    args.dry_run => fs = fs0 /\ dirs = ExistingDirs

C5_Witness ==
    /\ args.dry_run /\ summary # NoSummary /\ processed > 0
    /\ args.output = None /\ args.backup
    /\ \E t \in triples : t.bak # NoPath

\* the triples planned from the tree as it was before the run
PlannedTriples ==
    {[src |-> p, dest |-> dest_path(p, FileNameToStr(p), args),
      bak |-> backup_path(p, args)] : p \in InitialCandidates}

\* C6: a dry run and a real run of the same configuration over the same
\* tree derive the same (source, destination, backup) triples: both derive
\* exactly the triples planned from the initial tree.
C6_SameTriples ==
    summary # NoSummary => triples = PlannedTriples

\* the dry-run half of C6 alone
C6_DryRunTriples ==
    (summary # NoSummary /\ args.dry_run) => triples = PlannedTriples

\* C7: a run past setup exits with 1 exactly when errors > 0 and with 0
\* otherwise.
C7_ExitCode ==
    PastSetup => exit_code = (IF errors > 0 THEN 1 ELSE 0)

\* C8: a failure while handling one candidate becomes one increment of
\* errors and never aborts the run: no worker panics, every candidate is
\* counted once, a candidate with a failure of its own is counted in errors
\* and one that succeeds alone is counted in processed.
C8_FailureIsolated ==
    /\ ~Panicked
    /\ PastSetup =>
           \A p \in dispatched :
               /\ Increments(p) = 1
               /\ OwnFault(p) => outcome[p] = <<"errors">>
               /\ (p \in DOMAIN fs0 /\ Decodable(fs0[p]) /\ ~OwnFault(p))
                      => outcome[p] = <<"processed">>

\* C9: a setup failure ends the run with a non-zero exit code before
\* anything is walked, counted, backed up or written.
C9_SetupFailureTouchesNothing ==
    /\ (pc # "start" /\ args.input \notin ExistingDirs) => fatal = "input_missing"
    /\ fatal \in {"input_missing", "mkdir_failed"} =>
           /\ pc = "exited" /\ exit_code \notin {NoExit, 0}
           /\ processed = 0 /\ skipped = 0 /\ errors = 0
           /\ summary = NoSummary
           /\ ~walker.opened /\ dispatched = {} /\ backups = {}
           /\ fs = fs0

C9_Witness ==
    /\ fatal = "mkdir_failed" /\ exit_code = 1
    /\ "new" \in dirs /\ DOMAIN fs0 # {}

CompleteOutput(p) ==
    [px |-> fs0[p].px,
     st |-> IF WantsOptimize(args.optimize, ToStr(Extension(p)))
            THEN "opt" ELSE "enc"]

\* C11: output directory set, real run, no I/O failure: two candidates of
\* the initial tree that share a base name are planned to the same
\* destination, both are counted as processed, and at the end the
\* destination holds the complete output of one of them, never a mixture,
\* whatever the interleaving of the workers' steps.
C11_SharedDestination ==
    (summary # NoSummary /\ args.output # None /\ ~args.dry_run /\ faulted = {}) =>
        \A t \in triples : \A u \in triples :
            ( /\ t.src # u.src /\ t.src.name = u.src.name
              /\ {t.src, u.src} \subseteq InitialCandidates ) =>
                /\ t.dest = u.dest
                /\ outcome[t.src] = <<"processed">>
                /\ outcome[u.src] = <<"processed">>
                /\ fs[t.dest] \in {CompleteOutput(t.src), CompleteOutput(u.src)}

\* the directories the walk reads: the input and, when recursive, what is
\* below it
AllowedDir(d) == d = args.input \/ (args.recursive /\ Parent(d) = args.input)

Unreadable(d) == [src |-> DirEntry(d), step |-> "readdir"] \in faulted

\* C12: exactly the regular files at an allowed depth whose extension is
\* literally png, jpg or jpeg are handed to the closure: nothing else is
\* ever dispatched, a walk that has ended has dispatched each such file of
\* the initial tree whose directory could be read, and the counters move
\* for dispatched files only.
C12_CandidateFilter ==
    /\ \A p \in dispatched :
           /\ p \in DOMAIN fs
           /\ AllowedDir(p.dir)
           /\ Len(p.name) >= 2
           /\ p.name[Len(p.name)] \in {"png", "jpg", "jpeg"}
    /\ walker.done =>
           \A p \in DOMAIN fs0 :
               ( /\ AllowedDir(p.dir) /\ ~Unreadable(p.dir)
                 /\ Len(p.name) >= 2
                 /\ p.name[Len(p.name)] \in {"png", "jpg", "jpeg"} )
                   => p \in dispatched
    /\ DOMAIN outcome = dispatched
    /\ processed + skipped + errors =
           Cardinality({p \in dispatched : outcome[p] # <<>>})

C12_Witness ==
    /\ summary # NoSummary
    /\ {P("in", <<"b", "txt">>), P("in", <<"c", "JPG">>)} \subseteq DOMAIN fs0
    /\ dispatched = {P("in", <<"a", "png">>)}
    /\ processed = 1 /\ errors = 0

LastSegment(p) == p.name[Len(p.name)]

\* C13: a pipeline is in the recompression step (read back, optimize,
\* overwrite) only when the optimize flag is set and its destination's
\* extension is png in some letter case, and only then does a file hold
\* optimized bytes; a processed jpg or jpeg candidate whose destination
\* nobody else wrote ends holding the plain encoding, with or without the
\* optimize flag.
C13_OptimizeOnlyPng ==
    /\ \A t \in wk :
           t.pc \in {"read", "optimize", "write"} =>
               args.optimize /\ LastSegment(t.dest) \in {"png", "PNG"}
    /\ \A p \in DOMAIN fs :
           fs[p].st = "opt" =>
               args.optimize /\ LastSegment(p) \in {"png", "PNG"}
    /\ \A t \in triples :
           ( /\ LastSegment(t.dest) \in {"jpg", "jpeg"}
             /\ outcome[t.src] = <<"processed">> /\ ~args.dry_run
             /\ \A u \in triples : u.dest = t.dest \/ u.bak = t.dest => u = t )
               => fs[t.dest] = [px |-> t.src, st |-> "enc"]

C13_Witness ==
    /\ args.optimize /\ ~args.dry_run /\ summary # NoSummary
    /\ \E t \in triples :
           /\ LastSegment(t.dest) = "jpg"
           /\ outcome[t.src] = <<"processed">>
           /\ fs[t.dest].st = "enc"

RecompressionFailed(p) == [src |-> p, step |-> "optimize"] \in faulted

\* the pipeline of t is the only one that writes the destination of t
SoleWriter(t) == \A u \in triples : (u.dest = t.dest \/ u.bak = t.dest) => u = t

\* C14: a candidate that decoded and encoded and whose recompression step
\* (read back, optimize, overwrite) then failed is counted in errors, not in
\* processed, and its destination holds the complete unoptimized encoding
\* the encode step wrote.
C14_FailedOptimizeKeepsEncoding ==
    \A t \in triples :
        ( /\ t.src \in DOMAIN fs0 /\ SoleWriter(t)
          /\ RecompressionFailed(t.src) /\ outcome[t.src] # <<>> ) =>
            /\ outcome[t.src] = <<"errors">>
            /\ fs[t.dest] = [px |-> fs0[t.src].px, st |-> "enc"]

\* the paths the pipeline of one candidate reads or writes
PathsOf(t) == {t.src, t.dest, t.bak} \ {NoPath}

\* C15: no path that the pipeline of one candidate reads or writes is the
\* source, destination or backup path of another candidate, for every
\* tree, also one that holds both X.ext and X.bak.ext.
C15_DisjointPaths ==
    \A t \in triples : \A u \in triples :
        t # u => PathsOf(t) \cap PathsOf(u) = {}

\* C16: under fair scheduling every run that got past setup eventually
\* prints the summary, also in-place with backup and with the output
\* directory inside the input, where the walk can return files written
\* during the run.
C16_RunEnds ==
    (pc = "run") ~> (summary # NoSummary)

\* C17: no step decreases a counter; the step that prints the summary is
\* taken when no closure call is in flight and every dispatched candidate
\* has made its one increment, it prints the counters as they are, and no
\* step after it changes a counter.
C17_CountersFinal ==
    [][ /\ processed' >= processed
        /\ skipped' >= skipped
        /\ errors' >= errors
        /\ summary # NoSummary => UNCHANGED <<counters, summary>>
        /\ (summary = NoSummary /\ summary' # NoSummary) =>
               /\ wk = {}
               /\ \A p \in dispatched : Increments(p) = 1
               /\ summary' = <<processed, skipped, errors>>
               /\ UNCHANGED counters
      ]_vars

C17_Witness ==
    /\ summary # NoSummary
    /\ Cardinality(dispatched) = 2
    /\ processed = 1 /\ errors = 1

\* C18: in a dry run every candidate takes the preview path: one increment
\* of processed, none of errors, no backup copy, no call of process_image;
\* a dry run past setup ends with errors = 0 and exit code 0, with or
\* without the backup flag.
C18_DryRunPreviews ==
    args.dry_run =>
        /\ errors = 0 /\ backups = {} /\ invoked = {}
        /\ \A t \in wk : t.pc = "preview"
        /\ \A p \in dispatched : outcome[p] \in {<<>>, <<"processed">>}
        /\ PastSetup =>
               /\ exit_code = 0
               /\ \A p \in dispatched : outcome[p] = <<"processed">>

\* C19: skipped is 0 in every state; the summary reports 0 skipped, and
\* processed and errors alone add up to the number of candidates dispatched.
C19_SkippedZero ==
    /\ skipped = 0
    /\ summary # NoSummary =>
           /\ summary[2] = 0
           /\ summary[1] + summary[3] = Cardinality(dispatched)

C19_Witness ==
    /\ summary # NoSummary /\ faulted # {}
    /\ summary[1] = 0 /\ summary[3] = 1

\* the input directory and what is below it
UnderInput(d) == d = args.input \/ Parent(d) = args.input

\* C20: with an output directory no backup copy is made, planned or begun,
\* backup flag or not; with an output directory outside the input tree the
\* files under the input are, in every state, the files that were there
\* before the run with their contents.
C20_OutputLeavesInput ==
    args.output # None =>
        /\ backups = {}
        /\ \A t \in triples : t.bak = NoPath
        /\ \A t \in wk : t.pc # "backup"
        /\ ~UnderInput(args.output) =>
               /\ {p \in DOMAIN fs : UnderInput(p.dir)} =
                      {p \in DOMAIN fs0 : UnderInput(p.dir)}
               /\ \A p \in DOMAIN fs0 : UnderInput(p.dir) => fs[p] = fs0[p]

C20_Witness ==
    /\ args.output = "new/out" /\ args.backup /\ ~args.dry_run
    /\ summary # NoSummary /\ processed = 1
    /\ P("new/out", <<"a", "png">>) \in DOMAIN fs

====
